---- MODULE Spec2Model ----
(***************************************************************************)
(* Model of professional-script.js: the debounce and throttle utilities,   *)
(* the mobile navigation menu and the two IntersectionObserver driven      *)
(* reveal animations, over a host with a clock and one-shot timers         *)
(* (setTimeout / clearTimeout) and run-to-completion callbacks.            *)
(***************************************************************************)
EXTENDS Integers, Sequences, FiniteSets

\* ---------------------------------------------------------------- bounds
\* Last instant at which the clock may still advance by one unit.
MaxTime == 6
\* Largest wait / limit handed to debounce / throttle.
MaxWait == 2
\* Calls made to one debounced or throttled callable.
MaxCalls == 3
\* Entries in one batch delivered to an observer callback.
MaxBatchLen == 2

\* ------------------------------------------------------- program constants
\* Delay step between the staggered reveals of one batch (index * 150).
StaggerDelay == 150

\* Arguments a trigger call may carry.
Args == {"a", "b"}
\* wait / limit values tried.
Waits == 1..MaxWait

\* Elements matched by ".skill-card, .project-card, .contact-card,
\* .about-content, .info-card" and, among them, the cards.
Cards == {"skillCard", "projectCard"}
AnimatedElements == Cards \cup {"aboutContent"}

\* Where a click lands.
ClickTargets == {"hamburger", "navLink", "navLinkOutsideMenu", "navMenu", "outside"}
Keys == {"Escape", "Enter"}

VARIABLES
    now,            \* host clock
    timers,         \* armed host timers: [id, due, kind, args, call]
    nextId,         \* id the next setTimeout returns
    hasTimers,      \* setTimeout / clearTimeout exist in the host
    hasIO,          \* 'IntersectionObserver' in window
    errors,         \* where an error was raised to the caller
    \* debounce(func, wait)
    wait,           \* the wait given to debounce
    dTimeout,       \* closure variable timeout (0: undefined)
    dCalls,         \* trigger calls made: [t, args]
    dInvs,          \* invocations of func: [t, args, call]
    \* throttle(func, limit)
    limit,          \* the limit given to throttle
    inThrottle,     \* closure variable inThrottle (undefined is falsy)
    tStack,         \* activations of func in progress (call indices)
    tCalls,         \* trigger calls made: [t, args, invoked, nested]
    tInvs,          \* invocations of func: [t, args, call]
    tClears,        \* instants at which a cooldown timer cleared the flag
    tThrown,        \* calls whose invocation of func failed
    \* page
    pageReady,      \* init() has run
    navPresent,     \* .hamburger and .nav-menu both exist
    hamburgerActive, navMenuActive, ariaExpanded, ariaHidden, bodyOverflow,
    lastEvent,      \* the last menu event handled and the state it found
    scrollObserved, staggerObserved,      \* targets of the two observers
    style, classList,                     \* per element
    scrollReveals, staggerScheduled, staggerReveals, \* per element counts
    scrollSeen, staggerSeen               \* elements reported intersecting

commonVars == <<now, timers, nextId, hasTimers, hasIO, errors>>
dVars == <<wait, dTimeout, dCalls, dInvs>>
tVars == <<limit, inThrottle, tStack, tCalls, tInvs, tClears, tThrown>>
menuVars == <<navPresent, hamburgerActive, navMenuActive, ariaExpanded,
              ariaHidden, bodyOverflow, lastEvent>>
obsVars == <<scrollObserved, staggerObserved, style, classList, scrollReveals,
             staggerScheduled, staggerReveals, scrollSeen, staggerSeen>>
pVars == <<pageReady, menuVars, obsVars>>
vars == <<commonVars, dVars, tVars, pVars>>

\* ------------------------------------------------------------ host timers
\* (mutant) clearTimeout that disarms nothing.
ClearTimeoutNothing(ts, id) == ts

\* clearTimeout(id): disarms the timer with that id, if any.
ClearTimeout(ts, id) == {tm \in ts : tm.id # id}

\* (mutant) a timer that is due one unit late.
TimerDueLate(delay) == now + delay + 1

\* (mutant) a timer that ignores its delay.
TimerDueNow(delay) == now

\* The instant a timer armed now with the given delay becomes due.
TimerDue(delay) == now + delay

\* setTimeout(cb, delay): arms a timer with a fresh id.
SetTimeout(ts, id, kind, delay, args, call) ==
    ts \cup {[id |-> id, due |-> TimerDue(delay), kind |-> kind,
              args |-> args, call |-> call]}

\* Timers whose delay has elapsed.
DueTimers == {tm \in timers : tm.due <= now}

\* The host runs due timers in order of due time, then of arming.
IsNextTimer(tm) ==
    /\ tm \in DueTimers
    /\ \A o \in DueTimers : tm.due < o.due \/ (tm.due = o.due /\ tm.id <= o.id)

\* The earliest instant an armed timer becomes due.
MinDue == CHOOSE d \in {tm.due : tm \in timers} : \A tm \in timers : d <= tm.due

\* Time passes by one unit: only between callbacks, never past a due timer.
Tick ==
    /\ tStack = <<>>
    /\ DueTimers = {}
    /\ now < MaxTime
    /\ now' = now + 1
    /\ UNCHANGED <<timers, nextId, hasTimers, hasIO, errors, dVars, tVars, pVars>>

\* The host idles until the next armed timer is due.
AwaitTimer ==
    /\ tStack = <<>>
    /\ DueTimers = {}
    /\ timers # {}
    /\ now' = MinDue
    /\ UNCHANGED <<timers, nextId, hasTimers, hasIO, errors, dVars, tVars, pVars>>

\* ---------------------------------------------------------------- debounce
\* executedFunction(...args): cancel the pending timer, arm a new one.
DebounceCall(a) ==
    /\ tStack = <<>>
    /\ Len(dCalls) < MaxCalls
    /\ dCalls' = Append(dCalls, [t |-> now, args |-> a])
    /\ IF hasTimers
       THEN /\ timers' = SetTimeout(ClearTimeout(timers, dTimeout), nextId,
                                    "debounce", wait, a, Len(dCalls) + 1)
            /\ dTimeout' = nextId
            /\ nextId' = nextId + 1
            /\ UNCHANGED errors
       ELSE /\ errors' = errors \cup {"debounce"}
            /\ UNCHANGED <<timers, dTimeout, nextId>>
    /\ UNCHANGED <<now, hasTimers, hasIO, wait, dInvs, tVars, pVars>>

\* later(): the armed timer fires; clearTimeout(timeout), then func(...args).
DebounceLater ==
    /\ tStack = <<>>
    /\ \E tm \in timers :
        /\ tm.kind = "debounce"
        /\ IsNextTimer(tm)
        /\ timers' = ClearTimeout(timers \ {tm}, dTimeout)
        /\ dInvs' = Append(dInvs, [t |-> now, args |-> tm.args, call |-> tm.call])
    /\ UNCHANGED <<now, nextId, hasTimers, hasIO, errors, wait, dTimeout, dCalls,
                   tVars, pVars>>

\* ---------------------------------------------------------------- throttle
\* The returned function is called, from the event loop or from inside func:
\* if (!inThrottle) func.apply(context, args) starts running.
ThrottleCall(a) ==
    /\ Len(tCalls) < MaxCalls
    /\ tCalls' = Append(tCalls, [t |-> now, args |-> a, invoked |-> ~inThrottle,
                                 nested |-> tStack # <<>>])
    /\ IF ~inThrottle
       THEN /\ tInvs' = Append(tInvs, [t |-> now, args |-> a,
                                       call |-> Len(tCalls) + 1])
            /\ tStack' = Append(tStack, Len(tCalls) + 1)
       ELSE UNCHANGED <<tInvs, tStack>>
    /\ UNCHANGED <<commonVars, limit, inThrottle, tClears, tThrown, dVars, pVars>>

\* func returns: inThrottle = true; setTimeout(() => inThrottle = false, limit).
FuncReturn ==
    /\ tStack # <<>>
    /\ tStack' = SubSeq(tStack, 1, Len(tStack) - 1)
    /\ inThrottle' = TRUE
    /\ IF hasTimers
       THEN /\ timers' = SetTimeout(timers, nextId, "throttle", limit, "",
                                    tStack[Len(tStack)])
            /\ nextId' = nextId + 1
            /\ UNCHANGED errors
       ELSE /\ errors' = errors \cup {"throttle"}
            /\ UNCHANGED <<timers, nextId>>
    /\ UNCHANGED <<now, hasTimers, hasIO, limit, tCalls, tInvs, tClears, tThrown,
                   dVars, pVars>>

\* func fails: the exception leaves the wrapper at func.apply, before the
\* flag is set and before a timer is armed.
FuncThrow ==
    /\ tStack # <<>>
    /\ tStack' = SubSeq(tStack, 1, Len(tStack) - 1)
    /\ tThrown' = tThrown \cup {tStack[Len(tStack)]}
    /\ UNCHANGED <<commonVars, limit, inThrottle, tCalls, tInvs, tClears,
                   dVars, pVars>>

\* The cooldown timer fires: inThrottle = false.
ThrottleTimer ==
    /\ tStack = <<>>
    /\ \E tm \in timers :
        /\ tm.kind = "throttle"
        /\ IsNextTimer(tm)
        /\ timers' = timers \ {tm}
        /\ tClears' = Append(tClears, [t |-> now, call |-> tm.call])
    /\ inThrottle' = FALSE
    /\ UNCHANGED <<now, nextId, hasTimers, hasIO, errors, limit, tStack, tCalls,
                   tInvs, tThrown, dVars, pVars>>

\* --------------------------------------------------------- mobile navigation
Menu == [hamburgerActive |-> hamburgerActive, navMenuActive |-> navMenuActive,
         ariaExpanded |-> ariaExpanded, ariaHidden |-> ariaHidden,
         bodyOverflow |-> bodyOverflow]

\* setAttribute stores the string form of a boolean.
BoolString(b) == IF b THEN "true" ELSE "false"

\* (mutant) toggleMobileMenu writing the state it found into aria-expanded.
ToggleMobileMenuStaleAria(m) ==
    LET isActive == m.hamburgerActive IN
    [hamburgerActive |-> ~m.hamburgerActive,
     navMenuActive |-> ~m.navMenuActive,
     ariaExpanded |-> BoolString(isActive),
     ariaHidden |-> BoolString(isActive),
     bodyOverflow |-> IF ~isActive THEN "hidden" ELSE ""]

\* toggleMobileMenu()
ToggleMobileMenu(m) ==
    LET isActive == m.hamburgerActive IN
    [hamburgerActive |-> ~m.hamburgerActive,
     navMenuActive |-> ~m.navMenuActive,
     ariaExpanded |-> BoolString(~isActive),
     ariaHidden |-> BoolString(isActive),
     bodyOverflow |-> IF ~isActive THEN "hidden" ELSE ""]

\* The click listener of each .nav-link.
NavLinkListener(target, m) ==
    IF target \in {"navLink", "navLinkOutsideMenu"} /\ m.hamburgerActive
    THEN ToggleMobileMenu(m) ELSE m

\* The click listener of .hamburger.
HamburgerListener(target, m) ==
    IF target = "hamburger" THEN ToggleMobileMenu(m) ELSE m

\* The click listener of document: closes on a click outside both elements.
DocumentClickListener(target, m) ==
    IF /\ target # "hamburger"
       /\ target \notin {"navLink", "navMenu"}
       /\ m.hamburgerActive
    THEN ToggleMobileMenu(m) ELSE m

\* The keydown listener of document.
DocumentKeyListener(key, m) ==
    IF key = "Escape" /\ m.hamburgerActive THEN ToggleMobileMenu(m) ELSE m

SetMenu(m) ==
    /\ hamburgerActive' = m.hamburgerActive
    /\ navMenuActive' = m.navMenuActive
    /\ ariaExpanded' = m.ariaExpanded
    /\ ariaHidden' = m.ariaHidden
    /\ bodyOverflow' = m.bodyOverflow

\* A click: the listeners run in bubbling order, target first, document last.
Click(target) ==
    /\ pageReady
    /\ tStack = <<>>
    /\ SetMenu(IF navPresent
               THEN DocumentClickListener(target,
                        HamburgerListener(target, NavLinkListener(target, Menu)))
               ELSE Menu)
    /\ lastEvent' = [kind |-> target, wasActive |-> hamburgerActive]
    /\ UNCHANGED <<commonVars, dVars, tVars, pageReady, navPresent, obsVars>>

KeyDown(key) ==
    /\ pageReady
    /\ tStack = <<>>
    /\ SetMenu(IF navPresent THEN DocumentKeyListener(key, Menu) ELSE Menu)
    /\ lastEvent' = [kind |-> key, wasActive |-> hamburgerActive]
    /\ UNCHANGED <<commonVars, dVars, tVars, pageReady, navPresent, obsVars>>

\* ------------------------------------------------------ reveal animations
\* (mutant) initScrollAnimations without its capability check.
ScrollTargetsUnchecked == AnimatedElements

\* Elements initScrollAnimations hands to its observer.
ScrollTargets == IF hasIO THEN AnimatedElements ELSE {}

\* Elements initStaggeredAnimations hands to its observer.
StaggerTargets ==
    IF hasIO THEN {c \in Cards : "animated" \notin classList[c]} ELSE {}

\* init(): the init functions that touch the modelled state, in call order.
PageInit ==
    /\ ~pageReady
    /\ pageReady' = TRUE
    /\ scrollObserved' = ScrollTargets
    /\ staggerObserved' = StaggerTargets
    /\ style' = [e \in AnimatedElements |->
                   IF e \in StaggerTargets
                   THEN [opacity |-> "0", transform |-> "translateY(30px) scale(0.95)",
                         transition |-> "all 0.6s ease"]
                   ELSE IF e \in ScrollTargets
                   THEN [opacity |-> "0", transform |-> "translateY(30px)",
                         transition |-> "opacity 0.6s ease, transform 0.6s ease"]
                   ELSE style[e]]
    /\ UNCHANGED <<commonVars, dVars, tVars, menuVars, classList, scrollReveals,
                   staggerScheduled, staggerReveals, scrollSeen, staggerSeen>>

\* One IntersectionObserverEntry, and the batches an observer may deliver:
\* entries queued for its current targets, several for one target included.
Entries(observed) == [target : observed, isIntersecting : BOOLEAN]
Batches(observed) == UNION {[1..n -> Entries(observed)] : n \in 1..MaxBatchLen}

\* entries.forEach of initScrollAnimations, from entry i on.
RECURSIVE ScrollEach(_, _, _)
ScrollEach(entries, i, st) ==
    IF i > Len(entries) THEN st
    ELSE LET e == entries[i].target IN
         ScrollEach(entries, i + 1,
            IF entries[i].isIntersecting
            THEN [st EXCEPT
                    !.style[e].opacity = "1",
                    !.style[e].transform = "translateY(0)",
                    !.classList[e] = @ \cup {"animated"},
                    !.reveals[e] = @ + 1,
                    !.observed = @ \ {e}]
            ELSE st)

ScrollBatch(entries) ==
    /\ pageReady /\ hasIO
    /\ tStack = <<>>
    /\ LET st == ScrollEach(entries, 1,
                    [style |-> style, classList |-> classList,
                     reveals |-> scrollReveals, observed |-> scrollObserved]) IN
        /\ style' = st.style
        /\ classList' = st.classList
        /\ scrollReveals' = st.reveals
        /\ scrollObserved' = st.observed
    /\ scrollSeen' = scrollSeen \cup
           {entries[i].target : i \in {j \in DOMAIN entries : entries[j].isIntersecting}}
    /\ UNCHANGED <<commonVars, dVars, tVars, pageReady, menuVars, staggerObserved,
                   staggerScheduled, staggerReveals, staggerSeen>>

\* entries.forEach((entry, index) => ...) of initStaggeredAnimations, from
\* entry i on; without setTimeout the first intersecting entry raises and
\* ends the loop.
RECURSIVE StaggerEach(_, _, _)
StaggerEach(entries, i, st) ==
    IF i > Len(entries) \/ st.raised THEN st
    ELSE LET e == entries[i].target IN
         StaggerEach(entries, i + 1,
            IF ~entries[i].isIntersecting THEN st
            ELSE IF ~hasTimers THEN [st EXCEPT !.raised = TRUE]
            ELSE [st EXCEPT
                    !.timers = SetTimeout(@, st.nextId, "stagger",
                                          (i - 1) * StaggerDelay, e, 0),
                    !.nextId = @ + 1,
                    !.scheduled[e] = @ + 1,
                    !.observed = @ \ {e}])

StaggerBatch(entries) ==
    /\ pageReady /\ hasIO
    /\ tStack = <<>>
    /\ LET st == StaggerEach(entries, 1,
                    [timers |-> timers, nextId |-> nextId, raised |-> FALSE,
                     scheduled |-> staggerScheduled, observed |-> staggerObserved]) IN
        /\ timers' = st.timers
        /\ nextId' = st.nextId
        /\ staggerScheduled' = st.scheduled
        /\ staggerObserved' = st.observed
        /\ errors' = IF st.raised THEN errors \cup {"stagger"} ELSE errors
    /\ staggerSeen' = staggerSeen \cup
           {entries[i].target : i \in {j \in DOMAIN entries : entries[j].isIntersecting}}
    /\ UNCHANGED <<now, hasTimers, hasIO, dVars, tVars, pageReady, menuVars,
                   scrollObserved, style, classList, scrollReveals, staggerReveals,
                   scrollSeen>>

\* The timer armed by the staggered observer fires: the reveal itself.
StaggerReveal ==
    /\ tStack = <<>>
    /\ \E tm \in timers :
        /\ tm.kind = "stagger"
        /\ IsNextTimer(tm)
        /\ timers' = timers \ {tm}
        /\ style' = [style EXCEPT ![tm.args].opacity = "1",
                                  ![tm.args].transform = "translateY(0) scale(1)"]
        /\ classList' = [classList EXCEPT ![tm.args] = @ \cup {"stagger-animated"}]
        /\ staggerReveals' = [staggerReveals EXCEPT ![tm.args] = @ + 1]
    /\ UNCHANGED <<now, nextId, hasTimers, hasIO, errors, dVars, tVars, pageReady,
                   menuVars, scrollObserved, staggerObserved, scrollReveals,
                   staggerScheduled, scrollSeen, staggerSeen>>

\* ------------------------------------------------------------ initial state
InitCommon ==
    /\ now = 0
    /\ timers = {}
    /\ nextId = 1
    /\ errors = {}

InitDebounce ==
    /\ dTimeout = 0
    /\ dCalls = <<>>
    /\ dInvs = <<>>

InitThrottle ==
    /\ inThrottle = FALSE
    /\ tStack = <<>>
    /\ tCalls = <<>>
    /\ tInvs = <<>>
    /\ tClears = <<>>
    /\ tThrown = {}

NoStyle == [opacity |-> "", transform |-> "", transition |-> ""]

InitPage ==
    /\ pageReady = FALSE
    /\ hamburgerActive = FALSE
    /\ navMenuActive = FALSE
    /\ bodyOverflow = ""
    /\ lastEvent = [kind |-> "none", wasActive |-> FALSE]
    /\ scrollObserved = {}
    /\ staggerObserved = {}
    /\ style = [e \in AnimatedElements |-> NoStyle]
    /\ classList = [e \in AnimatedElements |-> {}]
    /\ scrollReveals = [e \in AnimatedElements |-> 0]
    /\ staggerScheduled = [e \in AnimatedElements |-> 0]
    /\ staggerReveals = [e \in AnimatedElements |-> 0]
    /\ scrollSeen = {}
    /\ staggerSeen = {}

AllCapabilities == hasTimers = TRUE /\ hasIO = TRUE

\* The markup carries no aria-expanded / aria-hidden attribute.
NoAriaMarkup == ariaExpanded = "unset" /\ ariaHidden = "unset"

\* The markup of a closed menu: the attributes are absent or say closed.
ClosedAriaMarkup ==
    /\ ariaExpanded \in {"unset", "false"}
    /\ ariaHidden \in {"unset", "true"}

\* A host that lacks at least one of the two capabilities.
SomeCapabilityAbsent ==
    /\ hasTimers \in BOOLEAN
    /\ hasIO \in BOOLEAN
    /\ ~(hasTimers /\ hasIO)

\* ----------------------------------------------------------- specifications
\* One debounced callable, debounce(func, wait) for each wait tried.
InitDebounceSpec ==
    /\ InitCommon /\ InitDebounce /\ InitThrottle /\ InitPage
    /\ NoAriaMarkup
    /\ AllCapabilities
    /\ wait \in Waits
    /\ limit = 1
    /\ navPresent = TRUE

NextDebounce ==
    \/ \E a \in Args : DebounceCall(a)
    \/ DebounceLater
    \/ Tick
    \/ AwaitTimer

SpecDebounce == InitDebounceSpec /\ [][NextDebounce]_vars

\* One throttled callable, whose func may return, fail or call it again.
InitThrottleSpec ==
    /\ InitCommon /\ InitDebounce /\ InitThrottle /\ InitPage
    /\ NoAriaMarkup
    /\ AllCapabilities
    /\ wait = 1
    /\ limit \in Waits
    /\ navPresent = TRUE

NextThrottle ==
    \/ \E a \in Args : ThrottleCall(a)
    \/ FuncReturn
    \/ FuncThrow
    \/ ThrottleTimer
    \/ Tick
    \/ AwaitTimer

SpecThrottle == InitThrottleSpec /\ [][NextThrottle]_vars

\* The page's menu, on a page with or without the menu's elements.
InitMenuSpec ==
    /\ InitCommon /\ InitDebounce /\ InitThrottle /\ InitPage
    /\ ClosedAriaMarkup
    /\ AllCapabilities
    /\ wait = 1
    /\ limit = 1
    /\ navPresent \in BOOLEAN

NextMenu ==
    \/ PageInit
    \/ \E target \in ClickTargets : Click(target)
    \/ \E key \in Keys : KeyDown(key)
    \/ Tick

SpecMenu == InitMenuSpec /\ [][NextMenu]_vars

\* The page's two observers and the reveals they schedule.
InitObserverSpec ==
    /\ InitCommon /\ InitDebounce /\ InitThrottle /\ InitPage
    /\ NoAriaMarkup
    /\ AllCapabilities
    /\ wait = 1
    /\ limit = 1
    /\ navPresent = TRUE

NextPage ==
    \/ PageInit
    \/ \E entries \in Batches(scrollObserved) : ScrollBatch(entries)
    \/ \E entries \in Batches(staggerObserved) : StaggerBatch(entries)
    \/ StaggerReveal
    \/ AwaitTimer

SpecPage == InitObserverSpec /\ [][NextPage]_vars

\* A host lacking a capability. The observers and the two callables share
\* no state: the observers run on the hosts that have IntersectionObserver,
\* the callables (with a func that returns) on the host that has neither
\* capability.
InitCapabilitySpec ==
    /\ InitCommon /\ InitDebounce /\ InitThrottle /\ InitPage
    /\ NoAriaMarkup
    /\ SomeCapabilityAbsent
    /\ wait = 1
    /\ limit = 1
    /\ navPresent = TRUE

NoCapability == ~hasTimers /\ ~hasIO

NextCapability ==
    \/ PageInit
    \/ \E entries \in Batches(scrollObserved) : ScrollBatch(entries)
    \/ \E entries \in Batches(staggerObserved) : StaggerBatch(entries)
    \/ \E a \in Args : NoCapability /\ DebounceCall(a)
    \/ \E a \in Args : NoCapability /\ ThrottleCall(a)
    \/ NoCapability /\ FuncReturn

SpecCapability == InitCapabilitySpec /\ [][NextCapability]_vars

\* ------------------------------------------------------------------ claims
\* Time between call k and call k + 1 of the debounced callable.
DGap(k) == dCalls[k + 1].t - dCalls[k].t

\* Calls i..j form a burst that is over: inside it every call comes less than
\* wait after the previous one, it is not glued to the call before it, and
\* no call follows call j within wait.
DBurst(i, j) ==
    /\ i <= j
    /\ \A k \in i..(j - 1) : DGap(k) < wait
    /\ i = 1 \/ DGap(i - 1) >= wait
    /\ IF j < Len(dCalls) THEN DGap(j) > wait ELSE now > dCalls[j].t + wait

\* Invocations of func made by timers that calls i..j armed.
DInvsOf(i, j) == {n \in DOMAIN dInvs : dInvs[n].call \in i..j}

\* C1: every finished burst of debounced calls invokes func exactly once,
\* wait after the last call of the burst and with that call's arguments.
C1_DebounceBurstInvokesOnce ==
    \A i \in DOMAIN dCalls : \A j \in DOMAIN dCalls :
        DBurst(i, j) =>
            /\ Cardinality(DInvsOf(i, j)) = 1
            /\ \A n \in DInvsOf(i, j) :
                   dInvs[n] = [t |-> dCalls[j].t + wait, args |-> dCalls[j].args,
                               call |-> j]

\* A burst of three calls with differing arguments has been answered.
C1_Witness ==
    /\ Len(dCalls) = 3
    /\ DBurst(1, 3)
    /\ dCalls[1].t < dCalls[2].t /\ dCalls[2].t < dCalls[3].t
    /\ dCalls[1].args # dCalls[3].args
    /\ Len(dInvs) = 1

DebounceTimers == {tm \in timers : tm.kind = "debounce"}

\* C6: a debounced callable has at most one armed timer, the one its latest
\* call armed, and a timer armed by a call that another call followed before
\* it was due never fires.
C6_DebounceOneTimer ==
    /\ Cardinality(DebounceTimers) <= 1
    /\ \A tm \in DebounceTimers : tm.id = dTimeout /\ tm.call = Len(dCalls)
    /\ \A n \in DOMAIN dInvs : \A k \in DOMAIN dCalls :
           k > dInvs[n].call => dCalls[k].t >= dInvs[n].t

\* A second call has replaced the timer of the first before it was due.
C6_Witness ==
    /\ Len(dCalls) = 2
    /\ DGap(1) < wait
    /\ Cardinality(DebounceTimers) = 1
    /\ dInvs = <<>>

\* C7: when every debounced call comes more than wait after the previous
\* one, each call gets its own invocation of func, wait after the call and
\* with the call's arguments.
C7_DebounceSpacedCalls ==
    (\A k \in 1..(Len(dCalls) - 1) : DGap(k) > wait) =>
        /\ Len(dInvs) <= Len(dCalls)
        /\ \A n \in DOMAIN dInvs :
               /\ dInvs[n].call = n
               /\ dInvs[n].t = dCalls[n].t + wait
               /\ dInvs[n].args = dCalls[n].args
        /\ \A k \in DOMAIN dCalls :
               (k < Len(dCalls) \/ now > dCalls[k].t + wait) => k \in DOMAIN dInvs

\* Three well spaced calls have each been answered.
C7_Witness ==
    /\ Len(dCalls) = 3
    /\ \A k \in 1..2 : DGap(k) > wait
    /\ Len(dInvs) = 3
    /\ dCalls[1].args # dCalls[2].args

\* Invocations of func made for calls before call k of the throttled callable.
TPrior(k) == {n \in DOMAIN tInvs : tInvs[n].call < k}

\* C2: of the calls made within a window shorter than limit that opens with
\* a call finding the callable out of cooldown, only that first call invokes
\* func, at once and with its own arguments.
C2_ThrottleWindowOneInvocation ==
    /\ \A n \in DOMAIN tInvs :
           /\ tCalls[tInvs[n].call].invoked
           /\ tInvs[n].t = tCalls[tInvs[n].call].t
           /\ tInvs[n].args = tCalls[tInvs[n].call].args
    /\ \A i \in DOMAIN tCalls : \A j \in DOMAIN tCalls :
           (i < j /\ tCalls[i].invoked /\ tCalls[j].t - tCalls[i].t < limit)
               => ~tCalls[j].invoked

\* C3: a call invokes func exactly when the cooldown of every earlier
\* invocation has elapsed (calls at 0, 5, 10, 20 with limit 16 invoke func at
\* 0 and at 20 only), and an invoking call starts a new cooldown.
C3_ThrottleLeadingEdge ==
    \A k \in DOMAIN tCalls :
        /\ (\A n \in TPrior(k) : tCalls[k].t > tInvs[n].t + limit)
               => tCalls[k].invoked
        /\ (\E n \in TPrior(k) : tCalls[k].t < tInvs[n].t + limit)
               => ~tCalls[k].invoked
        /\ (tCalls[k].invoked /\ tStack = <<>> /\ now < tCalls[k].t + limit)
               => inThrottle

\* C5: two invocations of func are never less than limit apart, and a call
\* dropped between two invocations came during the cooldown of the first.
C5_ThrottleSpacing ==
    /\ \A m \in DOMAIN tInvs : \A n \in DOMAIN tInvs :
           m < n => tInvs[n].t - tInvs[m].t >= limit
    /\ \A n \in DOMAIN tInvs : \A k \in DOMAIN tCalls :
           (n > 1 /\ tInvs[n - 1].call < k /\ k < tInvs[n].call)
               => tCalls[k].t <= tInvs[n - 1].t + limit

\* Flag clearings by the cooldown timer that invocation n armed.
TClearsOf(n) == {c \in DOMAIN tClears : tClears[c].call = tInvs[n].call}

\* C9: once the handler is back, every invocation of func, failed or not,
\* keeps the callable suppressed until limit after it, and its cooldown ends
\* exactly once, at that instant.
C9_ThrottleCooldown ==
    tStack = <<>> =>
        \A n \in DOMAIN tInvs :
            /\ now < tInvs[n].t + limit => inThrottle
            /\ Cardinality(TClearsOf(n)) <= 1
            /\ \A c \in TClearsOf(n) : tClears[c].t = tInvs[n].t + limit
            /\ now > tInvs[n].t + limit => Cardinality(TClearsOf(n)) = 1

\* C4: each observer runs (or schedules) its reveal at most once per
\* element, only for an element it was told is intersecting, and stops
\* observing the element it revealed.
C4_ObserverRevealsOnce ==
    \A e \in AnimatedElements :
        /\ scrollReveals[e] <= 1
        /\ staggerScheduled[e] <= 1
        /\ staggerReveals[e] <= 1
        /\ e \notin scrollSeen => scrollReveals[e] = 0
        /\ e \notin staggerSeen => staggerScheduled[e] = 0 /\ staggerReveals[e] = 0
        /\ e \in scrollSeen => e \notin scrollObserved
        /\ e \in staggerSeen => e \notin staggerObserved

\* C10: the hamburger and the menu are active together, aria-expanded,
\* aria-hidden and the body's overflow say so, and the menu is open only
\* after a hamburger click or when the event found it open; after a nav-link
\* click, an outside click or Escape it is closed.
C10_MenuConsistent ==
    /\ hamburgerActive = navMenuActive
    /\ (ariaExpanded = "true") = hamburgerActive
    /\ (ariaHidden = "false") = hamburgerActive
    /\ (bodyOverflow = "hidden") = hamburgerActive
    /\ (hamburgerActive /\ ~lastEvent.wasActive) => lastEvent.kind = "hamburger"
    /\ lastEvent.kind \in {"navLink", "navLinkOutsideMenu", "outside", "Escape"}
           => ~hamburgerActive

\* The menu was opened and Escape has closed it again.
C10_Witness ==
    /\ lastEvent = [kind |-> "Escape", wasActive |-> TRUE]
    /\ ~hamburgerActive /\ ~navMenuActive
    /\ ariaExpanded = "false" /\ ariaHidden = "true"
    /\ bodyOverflow = ""

\* Calls of the throttled callable that invoked func and have returned.
TReturned == {k \in DOMAIN tCalls : tCalls[k].invoked /\ \A i \in DOMAIN tStack : tStack[i] # k}

\* C8 as stated: without IntersectionObserver nothing is observed or
\* revealed, and without timers calling a debounced or throttled callable
\* does nothing and raises nothing.
C8_AbsentCapabilityIsNoOp ==
    /\ (pageReady /\ ~hasIO) =>
           /\ scrollObserved = {} /\ staggerObserved = {}
           /\ \A e \in AnimatedElements : scrollReveals[e] = 0 /\ staggerReveals[e] = 0
    /\ ~hasTimers =>
           /\ errors \cap {"debounce", "throttle"} = {}
           /\ dInvs = <<>> /\ tInvs = <<>>

\* C8 amended: without IntersectionObserver nothing is observed or revealed
\* and the observers raise nothing; without timers every debounced call
\* raises an error and never invokes func, and a throttled call invokes func
\* and, once func returns, raises an error and stays suppressed.
C8_AbsentCapability ==
    /\ (pageReady /\ ~hasIO) =>
           /\ scrollObserved = {} /\ staggerObserved = {}
           /\ \A e \in AnimatedElements :
                  scrollReveals[e] = 0 /\ staggerScheduled[e] = 0 /\ staggerReveals[e] = 0
           /\ "stagger" \notin errors
    /\ ~hasTimers =>
           /\ ("debounce" \in errors) = (dCalls # <<>>)
           /\ dInvs = <<>> /\ timers = {}
           /\ ("throttle" \in errors) = (TReturned # {})
           /\ inThrottle = (TReturned # {})
           /\ \A k \in DOMAIN tCalls :
                  ~tCalls[k].invoked => \E r \in TReturned : r < k

\* A host with neither capability: the page is up, and both callables have
\* been called.
C8_Witness ==
    /\ ~hasIO /\ ~hasTimers
    /\ pageReady
    /\ errors = {"debounce", "throttle"}
    /\ Len(tCalls) >= 2
====
